---------------------------- MODULE Spec2Model ----------------------------
(***************************************************************************)
(* The three server files of the repository, each an express application   *)
(* that proxies requests to the OpenAI chat-completions API:                *)
(*   "inkparse-server"  src/inkparse-server.js  (POST /api/analyze, 1..10   *)
(*                      images, full sanitizer)                             *)
(*   "part_000"         src/unnamed/part_000    (POST /api/analyze and      *)
(*                      POST /api/generate-doc)                             *)
(*   "part_001"         src/unnamed/part_001    (POST /api/analyze, one     *)
(*                      image)                                              *)
(* Text is a sequence of one-character strings; a JSON value is a tagged    *)
(* tuple.  A handler is two steps: the synchronous part up to the await of  *)
(* the model call, and the continuation that runs when the call settles.    *)
(* health holds the answer to the latest GET /health.                       *)
(***************************************************************************)
EXTENDS Integers, Sequences, FiniteSets, TLC

VARIABLES variant, endpoint, body, pc, calls, sent, reply, resp, ran, health

vars == <<variant, endpoint, body, pc, calls, sent, reply, resp, ran, health>>

(***************************************************************************)
(* Characters and strings                                                  *)
(***************************************************************************)
QUOTE == "\""
BSL == "\\"
LF == "\n"
CR == "\r"
TAB == "\t"
\* the backtick character (written as a word)
BACKTICK == "backtick"

\* String.prototype.trim and the regular expressions' \s, on the characters used here
WhiteSpace == {" ", LF, CR, TAB}

Digits == {"0", "1", "2", "3", "4", "5", "6", "7", "8", "9"}

Min(S) == CHOOSE x \in S : \A y \in S : x <= y

Max(S) == CHOOSE x \in S : \A y \in S : x >= y

\* s.slice(i - 1): the text from position i on
From(s, i) == SubSeq(s, i, Len(s))

StartsWith(s, p) == Len(s) >= Len(p) /\ SubSeq(s, 1, Len(p)) = p

\* the first position >= i whose character is not white space (Len(s) + 1 if none)
SkipWs(s, i) ==
    LET I == {k \in i..Len(s) : s[k] \notin WhiteSpace}
    IN  IF I = {} THEN Len(s) + 1 ELSE Min(I)

\* String.prototype.trim
Trim(s) ==
    LET I == {k \in 1..Len(s) : s[k] \notin WhiteSpace}
    IN  IF I = {} THEN <<>> ELSE SubSeq(s, Min(I), Max(I))

\* the /i flag, on the letters of "json"
Lower(c) ==
    CASE c = "J" -> "j"
      [] c = "S" -> "s"
      [] c = "O" -> "o"
      [] c = "N" -> "n"
      [] OTHER -> c

LowerAll(s) == [k \in 1..Len(s) |-> Lower(s[k])]

FENCE == <<BACKTICK, BACKTICK, BACKTICK>>

FENCE_JSON == FENCE \o <<"j", "s", "o", "n">>

\* .replace(/^FENCEjson\s*/i, ""), FENCE the three backticks
StripFenceJson(s) ==
    IF StartsWith(LowerAll(s), FENCE_JSON)
    THEN From(s, SkipWs(s, Len(FENCE_JSON) + 1))
    ELSE s

\* .replace(/^FENCE\s*/i, "")
StripFenceOpen(s) ==
    IF StartsWith(s, FENCE) THEN From(s, SkipWs(s, Len(FENCE) + 1)) ELSE s

\* .replace(/FENCE\s*$/i, ""): the leftmost fence followed by white space only
StripFenceClose(s) ==
    LET I == {k \in 1..(Len(s) - 2) :
                 /\ SubSeq(s, k, k + 2) = FENCE
                 /\ SkipWs(s, k + 3) = Len(s) + 1}
    IN  IF I = {} THEN s ELSE SubSeq(s, 1, Min(I) - 1)

\* rawText.replace(...).replace(...).replace(...).trim()
StripFences(s) == Trim(StripFenceClose(StripFenceOpen(StripFenceJson(s))))

\* ExtractObject without the extraction: the text is parsed as it is
MutExtractNothing(s) == s

\* clean.match(/(\{[\s\S]*\})/): the first "{" through the last "}", when the
\* first "{" comes before the last "}"; otherwise the text as it is
ExtractObject(s) ==
    LET O == {k \in 1..Len(s) : s[k] = "{"}
        C == {k \in 1..Len(s) : s[k] = "}"}
    IN  IF O # {} /\ C # {} /\ Min(O) < Max(C)
        THEN SubSeq(s, Min(O), Max(C))
        ELSE s

(***************************************************************************)
(* JSON values and JSON.parse / JSON.stringify                             *)
(***************************************************************************)
BACKSPACE == "backspace"
FORMFEED == "\f"

Undefined == <<"undefined">>
JNull == <<"null">>
JBool(b) == <<"bool", b>>
\* a number is kept as its lexeme
JNum(lex) == <<"num", lex>>
JStr(s) == <<"str", s>>
JArr(es) == <<"arr", es>>
\* an object is the sequence of its <<key, value>> members in insertion order
JObj(ms) == <<"obj", ms>>

TypeOf(v) == v[1]

Fail == <<FALSE, JNull, 0>>

Ok(v, next) == <<TRUE, v, next>>

Unescape(c) ==
    CASE c = "b" -> BACKSPACE
      [] c = "f" -> FORMFEED
      [] c = "n" -> LF
      [] c = "r" -> CR
      [] c = "t" -> TAB
      [] OTHER -> c

\* the character of a \uXXXX escape, for the code points used here
CodeUnit(h) ==
    CASE LowerAll(h) = <<"0", "0", "0", "a">> -> LF
      [] LowerAll(h) = <<"0", "0", "0", "d">> -> CR
      [] LowerAll(h) = <<"0", "0", "2", "2">> -> QUOTE
      [] LowerAll(h) = <<"0", "0", "5", "c">> -> BSL
      [] LowerAll(h) = <<"0", "0", "4", "1">> -> "A"
      [] OTHER -> "U+"

\* the rest of a string literal whose opening quote is before position i
RECURSIVE ScanString(_, _, _)
ScanString(s, i, acc) ==
    IF i > Len(s) THEN Fail
    ELSE IF s[i] = QUOTE THEN Ok(JStr(acc), i + 1)
    ELSE IF s[i] = BSL THEN
        IF i + 1 > Len(s) THEN Fail
        ELSE IF s[i + 1] \in {QUOTE, BSL, "/", "b", "f", "n", "r", "t"}
        THEN ScanString(s, i + 2, Append(acc, Unescape(s[i + 1])))
        ELSE IF /\ s[i + 1] = "u"
                /\ i + 5 <= Len(s)
                /\ \A k \in 2..5 :
                      s[i + k] \in Digits \cup {"a", "b", "c", "d", "e", "f",
                                                "A", "B", "C", "D", "E", "F"}
        THEN ScanString(s, i + 6, Append(acc, CodeUnit(SubSeq(s, i + 2, i + 5))))
        ELSE Fail
    ELSE IF s[i] \in {LF, CR, TAB, BACKSPACE, FORMFEED} THEN Fail
    ELSE ScanString(s, i + 1, Append(acc, s[i]))

\* the first position >= i that holds no digit
DigitsEnd(s, i) ==
    LET I == {k \in i..Len(s) : s[k] \notin Digits}
    IN  IF I = {} THEN Len(s) + 1 ELSE Min(I)

IsAt(s, i, C) == i <= Len(s) /\ s[i] \in C

\* -? (0 | [1-9][0-9]*) (\.[0-9]+)? ([eE][+-]?[0-9]+)?
ParseNumber(s, i) ==
    LET j0 == IF IsAt(s, i, {"-"}) THEN i + 1 ELSE i
        j1 == IF IsAt(s, j0, {"0"}) THEN j0 + 1 ELSE DigitsEnd(s, j0)
        fracOk == ~IsAt(s, j1, {"."}) \/ IsAt(s, j1 + 1, Digits)
        j2 == IF IsAt(s, j1, {"."}) THEN DigitsEnd(s, j1 + 1) ELSE j1
        e0 == IF IsAt(s, j2 + 1, {"+", "-"}) THEN j2 + 2 ELSE j2 + 1
        expOk == ~IsAt(s, j2, {"e", "E"}) \/ IsAt(s, e0, Digits)
        j3 == IF IsAt(s, j2, {"e", "E"}) THEN DigitsEnd(s, e0) ELSE j2
    IN  IF IsAt(s, j0, Digits) /\ fracOk /\ expOk
        THEN Ok(JNum(SubSeq(s, i, j3 - 1)), j3)
        ELSE Fail

LIT_true == <<"t", "r", "u", "e">>
LIT_false == <<"f", "a", "l", "s", "e">>
LIT_null == <<"n", "u", "l", "l">>

HasKey(ms, k) == \E n \in 1..Len(ms) : ms[n][1] = k

\* a repeated key keeps its first place and takes the last value
PutMember(ms, k, v) ==
    IF HasKey(ms, k)
    THEN [n \in 1..Len(ms) |-> IF ms[n][1] = k THEN <<k, v>> ELSE ms[n]]
    ELSE Append(ms, <<k, v>>)

RECURSIVE ParseValue(_, _), ParseElements(_, _, _), ParseMembers(_, _, _)
\* the value that starts at position i
ParseValue(s, i) ==
    IF i > Len(s) THEN Fail
    ELSE IF s[i] = "{" THEN
        LET j == SkipWs(s, i + 1)
        IN  IF IsAt(s, j, {"}"}) THEN Ok(JObj(<<>>), j + 1) ELSE ParseMembers(s, j, <<>>)
    ELSE IF s[i] = "[" THEN
        LET j == SkipWs(s, i + 1)
        IN  IF IsAt(s, j, {"]"}) THEN Ok(JArr(<<>>), j + 1) ELSE ParseElements(s, j, <<>>)
    ELSE IF s[i] = QUOTE THEN ScanString(s, i + 1, <<>>)
    ELSE IF s[i] \in Digits \cup {"-"} THEN ParseNumber(s, i)
    ELSE IF StartsWith(From(s, i), LIT_true) THEN Ok(JBool(TRUE), i + 4)
    ELSE IF StartsWith(From(s, i), LIT_false) THEN Ok(JBool(FALSE), i + 5)
    ELSE IF StartsWith(From(s, i), LIT_null) THEN Ok(JNull, i + 4)
    ELSE Fail

\* the elements of an array from position i on, after those in acc
ParseElements(s, i, acc) ==
    LET r == ParseValue(s, i)
        j == SkipWs(s, r[3])
    IN  IF ~r[1] \/ j > Len(s) THEN Fail
        ELSE IF s[j] = "," THEN ParseElements(s, SkipWs(s, j + 1), Append(acc, r[2]))
        ELSE IF s[j] = "]" THEN Ok(JArr(Append(acc, r[2])), j + 1)
        ELSE Fail

\* the members of an object from position i on, after those in acc
ParseMembers(s, i, acc) ==
    IF ~IsAt(s, i, {QUOTE}) THEN Fail
    ELSE
        LET k == ScanString(s, i + 1, <<>>)
            c == SkipWs(s, k[3])
            r == ParseValue(s, SkipWs(s, c + 1))
            j == SkipWs(s, r[3])
            acc2 == PutMember(acc, k[2][2], r[2])
        IN  IF ~k[1] \/ ~IsAt(s, c, {":"}) THEN Fail
            ELSE IF ~r[1] \/ j > Len(s) THEN Fail
            ELSE IF s[j] = "," THEN ParseMembers(s, SkipWs(s, j + 1), acc2)
            ELSE IF s[j] = "}" THEN Ok(JObj(acc2), j + 1)
            ELSE Fail

\* the result of JSON.parse(s) from the value r read at its start: nothing but
\* white space may follow it
TopLevel(s, r) ==
    IF r[1] /\ SkipWs(s, r[3]) = Len(s) + 1 THEN <<TRUE, r[2]>> ELSE <<FALSE, JNull>>

\* JSON.parse(s): <<TRUE, value>>, or <<FALSE, JNull>> where it throws a SyntaxError
JSONParse(s) == TopLevel(s, ParseValue(s, SkipWs(s, 1)))

EscapeChar(c) ==
    CASE c = QUOTE -> <<BSL, QUOTE>>
      [] c = BSL -> <<BSL, BSL>>
      [] c = LF -> <<BSL, "n">>
      [] c = CR -> <<BSL, "r">>
      [] c = TAB -> <<BSL, "t">>
      [] c = BACKSPACE -> <<BSL, "b">>
      [] c = FORMFEED -> <<BSL, "f">>
      [] OTHER -> <<c>>

RECURSIVE EscapeAll(_)
EscapeAll(s) == IF s = <<>> THEN <<>> ELSE EscapeChar(Head(s)) \o EscapeAll(Tail(s))

QuoteString(s) == <<QUOTE>> \o EscapeAll(s) \o <<QUOTE>>

RECURSIVE Stringify(_), StringifyElements(_), StringifyMembers(_)
\* JSON.stringify(v), without indentation
Stringify(v) ==
    CASE TypeOf(v) = "null" -> LIT_null
      [] TypeOf(v) = "bool" -> IF v[2] THEN LIT_true ELSE LIT_false
      [] TypeOf(v) = "num" -> v[2]
      [] TypeOf(v) = "str" -> QuoteString(v[2])
      [] TypeOf(v) = "arr" -> <<"[">> \o StringifyElements(v[2]) \o <<"]">>
      [] TypeOf(v) = "obj" -> <<"{">> \o StringifyMembers(v[2]) \o <<"}">>

StringifyElements(es) ==
    IF es = <<>> THEN <<>>
    ELSE Stringify(Head(es))
         \o (IF Len(es) > 1 THEN <<",">> ELSE <<>>)
         \o StringifyElements(Tail(es))

StringifyMembers(ms) ==
    IF ms = <<>> THEN <<>>
    ELSE QuoteString(Head(ms)[1]) \o <<":">> \o Stringify(Head(ms)[2])
         \o (IF Len(ms) > 1 THEN <<",">> ELSE <<>>)
         \o StringifyMembers(Tail(ms))

(***************************************************************************)
(* The regular-expression passes of the sanitizer                          *)
(***************************************************************************)

\* clean.replace(/\\(?!["\\/bfnrtu])/g, "\\\\")
RECURSIVE RepairEscapesFrom(_, _)
RepairEscapesFrom(s, i) ==
    IF i > Len(s) THEN <<>>
    ELSE (IF s[i] = BSL /\ ~IsAt(s, i + 1, {QUOTE, BSL, "/", "b", "f", "n", "r", "t", "u"})
          THEN <<BSL, BSL>>
          ELSE <<s[i]>>) \o RepairEscapesFrom(s, i + 1)

RepairEscapes(s) == RepairEscapesFrom(s, 1)

\* ReplaceCrLf that leaves the CR LF pairs to the replace of the lone CR
MutReplaceCrLfNone(s, i) == From(s, i)

\* .replace(/\r\n/g, "\n")
RECURSIVE ReplaceCrLf(_, _)
ReplaceCrLf(s, i) ==
    IF i > Len(s) THEN <<>>
    ELSE IF s[i] = CR /\ IsAt(s, i + 1, {LF}) THEN <<LF>> \o ReplaceCrLf(s, i + 2)
    ELSE <<s[i]>> \o ReplaceCrLf(s, i + 1)

\* .replace(/\r/g, "\n")
ReplaceCr(s) == [k \in 1..Len(s) |-> IF s[k] = CR THEN LF ELSE s[k]]

NormalizeLineEndings(s) == ReplaceCr(ReplaceCrLf(s, 1))

\* the character class ["':=] of the label expressions
LabelForbidden == {QUOTE, "'", ":", "="}

\* ReplaceLabels that blanks the forbidden characters wherever they stand
MutReplaceLabelsAnywhere(s, p, open, close, sep) ==
    [k \in 1..(Len(s) - p + 1) |->
        IF s[p + k - 1] \in LabelForbidden THEN " " ELSE s[p + k - 1]]

\* .replace(/\[([^\]]*?)["':=]([^\]]*?)\]/g, (_, a, b) => open a sep b close),
\* from position p on: a match runs from an opening bracket to the first closing
\* bracket after it, when a forbidden character lies between; its first forbidden
\* character is replaced by sep, and the search goes on after the match
RECURSIVE ReplaceLabels(_, _, _, _, _)
ReplaceLabels(s, p, open, close, sep) ==
    LET O == {k \in p..Len(s) : s[k] = open}
        i == Min(O)
        Cl == {k \in (i + 1)..Len(s) : s[k] = close}
        j == Min(Cl)
        F == {k \in (i + 1)..(j - 1) : s[k] \in LabelForbidden}
        f == Min(F)
    IN  IF O = {} THEN From(s, p)
        ELSE IF Cl = {} THEN From(s, p)
        ELSE IF F = {} THEN SubSeq(s, p, i) \o ReplaceLabels(s, i + 1, open, close, sep)
        ELSE SubSeq(s, p, f - 1) \o sep \o SubSeq(s, f + 1, j)
             \o ReplaceLabels(s, j + 1, open, close, sep)

\* the separator the replacement puts in the place of the forbidden character
LabelSeparator(v) == IF v = "part_001" THEN <<>> ELSE <<" ">>

\* the two label passes, square brackets then curly braces
SanitizeLabels(v, s) ==
    ReplaceLabels(ReplaceLabels(s, 1, "[", "]", LabelSeparator(v)),
                  1, "{", "}", LabelSeparator(v))

\* parsed.notes.replace(/\\(?![*_BACKTICK#>\-\[\]])/g, "")
RECURSIVE StripBackslashesFrom(_, _)
StripBackslashesFrom(s, i) ==
    IF i > Len(s) THEN <<>>
    ELSE (IF s[i] = BSL /\ ~IsAt(s, i + 1, {"*", "_", BACKTICK, "#", ">", "-", "[", "]"})
          THEN <<>> ELSE <<s[i]>>)
         \o StripBackslashesFrom(s, i + 1)

StripBackslashes(s) == StripBackslashesFrom(s, 1)

(***************************************************************************)
(* Property access on a parsed value                                       *)
(***************************************************************************)
K_title == <<"t", "i", "t", "l", "e">>
K_subject == <<"s", "u", "b", "j", "e", "c", "t">>
K_notes == <<"n", "o", "t", "e", "s">>
K_mermaidCode == <<"m", "e", "r", "m", "a", "i", "d", "C", "o", "d", "e">>
K_subtitle == <<"s", "u", "b", "t", "i", "t", "l", "e">>
K_sections == <<"s", "e", "c", "t", "i", "o", "n", "s">>
K_keyHighlights == <<"k", "e", "y", "H", "i", "g", "h", "l", "i", "g", "h", "t", "s">>
K_tags == <<"t", "a", "g", "s">>
K_callFlowMermaid == <<"c", "a", "l", "l", "F", "l", "o", "w", "M", "e", "r", "m", "a", "i", "d">>

\* parsed[k] for a parsed value that is not null: a member of an object, and
\* undefined on an array, a string, a number or a boolean
Get(v, k) ==
    IF TypeOf(v) = "obj" /\ HasKey(v[2], k)
    THEN v[2][CHOOSE n \in 1..Len(v[2]) : v[2][n][1] = k][2]
    ELSE Undefined

\* parsed[k] = x as res.json(parsed) shows it: a member of an object; a property
\* set on an array is not serialized, and on a primitive the assignment is
\* ignored (the files are not in strict mode)
Set(v, k, x) == IF TypeOf(v) = "obj" THEN JObj(PutMember(v[2], k, x)) ELSE v

\* the mantissa of a number's lexeme
Mantissa(lex) ==
    LET E == {k \in 1..Len(lex) : lex[k] \in {"e", "E"}}
    IN  IF E = {} THEN lex ELSE SubSeq(lex, 1, Min(E) - 1)

IsZero(lex) == \A k \in 1..Len(Mantissa(lex)) : Mantissa(lex)[k] \notin (Digits \ {"0"})

\* JavaScript truthiness: !v is false
Truthy(v) ==
    CASE TypeOf(v) = "undefined" -> FALSE
      [] TypeOf(v) = "null" -> FALSE
      [] TypeOf(v) = "bool" -> v[2]
      [] TypeOf(v) = "num" -> ~IsZero(v[2])
      [] TypeOf(v) = "str" -> v[2] # <<>>
      [] OTHER -> TRUE

(***************************************************************************)
(* Exceptions and responses                                                *)
(***************************************************************************)
Variants == {"inkparse-server", "part_000", "part_001"}

\* the variants whose /api/analyze reads the images array
MultiImageVariants == {"inkparse-server", "part_000"}

\* an exception: status 0 stands for an err.status that is undefined
Exception(name, status, message) == [name |-> name, status |-> status, message |-> message]

\* res.status(status).json({ error: message })
ErrorResponse(status, message) ==
    [status |-> status, kind |-> "error", error |-> message, value |-> Undefined]

\* res.json(parsed)
ResultResponse(value) ==
    [status |-> 200, kind |-> "result", error |-> "", value |-> value]

\* the answer of express 5 to a rejected handler: its default error handler's page
DefaultErrorPage ==
    [status |-> 500, kind |-> "html", error |-> "", value |-> Undefined]

MsgEmpty(v) ==
    IF v = "part_001" THEN "Empty response from OpenAI" ELSE "Empty response from OpenAI."

\* the text before parseErr.message
MsgParse(v, ep) ==
    CASE ep = "generate-doc" -> "Could not parse AI response: "
      [] v = "inkparse-server" -> "Could not parse AI response as valid JSON: "
      [] v = "part_000" -> "Could not parse AI response: "
      [] v = "part_001" -> "Could not parse AI response as JSON: "

MsgTypeError == "TypeError"

MsgUnexpected(v) ==
    IF v = "part_000" THEN "Unexpected error." ELSE "An unexpected error occurred."

\* the statuses each catch block tests for, with the status it answers
StatusMap(v, ep) ==
    CASE ep = "generate-doc" -> {<<401, 401>>, <<429, 429>>, <<413, 413>>}
      [] v = "inkparse-server" ->
            {<<401, 401>>, <<429, 429>>, <<400, 400>>, <<413, 413>>, <<500, 502>>}
      [] v = "part_000" -> {<<401, 401>>, <<429, 429>>}
      [] v = "part_001" -> {<<401, 401>>, <<429, 429>>, <<400, 400>>, <<413, 413>>}

\* the fixed message of a mapped status (for 400, the text before err.message)
MsgMapped(v, ep, status) ==
    CASE status = 401 /\ v = "part_000" -> "Invalid OpenAI API key."
      [] status = 401 -> "Invalid OpenAI API key. Check your .env file."
      [] status = 429 /\ v = "part_000" -> "Rate limit reached -- wait and retry."
      [] status = 429 -> "OpenAI rate limit reached -- please wait a moment and try again."
      [] status = 400 -> "Bad request to OpenAI: "
      [] status = 413 /\ ep = "generate-doc" -> "Prompt too large."
      [] status = 413 /\ v = "part_001" ->
            "Image is too large. Please reduce the file size and try again."
      [] status = 413 -> "Image(s) too large. Reduce file size and try again."
      [] status = 500 -> "OpenAI service error. Try again shortly."

\* the catch block of a handler
Catch(v, ep, err) ==
    LET M == {m \in StatusMap(v, ep) : m[1] = err.status}
    IN  IF M # {}
        THEN ErrorResponse((CHOOSE m \in M : TRUE)[2], MsgMapped(v, ep, err.status))
        ELSE ErrorResponse(500, IF err.message # "" THEN err.message ELSE MsgUnexpected(v))

(***************************************************************************)
(* The continuation of a handler after the model call                      *)
(***************************************************************************)
\* a reply of the model call: the call throws (kind "error", with err.status and
\* err.message), or returns a completion without content (kind "nocontent":
\* choices[0]?.message?.content is null or undefined) or with text
ErrorReply(status, message) ==
    [kind |-> "error", status |-> status, message |-> message, text |-> <<>>]

NoContentReply == [kind |-> "nocontent", status |-> 0, message |-> "", text |-> <<>>]

TextReply(text) == [kind |-> "text", status |-> 0, message |-> "", text |-> text]

\* SecondAttempt that goes on with an empty record when the second parse fails
MutSecondAttemptLenient(second) ==
    [ok |-> TRUE, value |-> IF second[1] THEN second[2] ELSE JObj(<<>>), attempts |-> 2]

\* the catch of the first attempt: parsed = JSON.parse(fixed)
SecondAttempt(second) == [ok |-> second[1], value |-> second[2], attempts |-> 2]

\* try { parsed = JSON.parse(clean) } catch { parsed = JSON.parse(fixed) }
ParseAttempts(clean, first) ==
    IF first[1]
    THEN [ok |-> TRUE, value |-> first[2], attempts |-> 1]
    ELSE SecondAttempt(JSONParse(RepairEscapes(clean)))

ParseClean(clean) == ParseAttempts(clean, JSONParse(clean))

\* the parse block: strip the fences, extract the object, parse, and on a
\* SyntaxError parse the repaired text; attempts counts the calls of JSON.parse
ParseCompletion(rawText) == ParseClean(ExtractObject(StripFences(rawText)))

\* if (parsed.mermaidCode) parsed.mermaidCode = parsed.mermaidCode.replace(...)...
MermaidThrows(parsed) ==
    \/ parsed = JNull
    \/ /\ Truthy(Get(parsed, K_mermaidCode))
       /\ TypeOf(Get(parsed, K_mermaidCode)) # "str"

CleanMermaid(v, m) ==
    IF v = "part_000"
    THEN NormalizeLineEndings(m)
    ELSE SanitizeLabels(v, NormalizeLineEndings(m))

MermaidStep(v, parsed) ==
    IF Truthy(Get(parsed, K_mermaidCode))
    THEN Set(parsed, K_mermaidCode, JStr(CleanMermaid(v, Get(parsed, K_mermaidCode)[2])))
    ELSE parsed

\* if (parsed.notes) parsed.notes = parsed.notes.replace(...): not in part_000
NotesThrows(v, parsed) ==
    /\ v # "part_000"
    /\ Truthy(Get(parsed, K_notes))
    /\ TypeOf(Get(parsed, K_notes)) # "str"

NotesStep(v, parsed) ==
    IF v # "part_000" /\ Truthy(Get(parsed, K_notes))
    THEN Set(parsed, K_notes, JStr(StripBackslashes(Get(parsed, K_notes)[2])))
    ELSE parsed

DEFAULT_TITLE == JStr(<<"H", "a", "n", "d", "w", "r", "i", "t", "t", "e", "n", " ",
                        "N", "o", "t", "e", "s">>)

DEFAULT_SUBJECT == JStr(<<"G", "e", "n", "e", "r", "a", "l">>)

\* if (!parsed[k]) parsed[k] = dflt
DefaultStep(parsed, k, dflt) ==
    IF Truthy(Get(parsed, k)) THEN parsed ELSE Set(parsed, k, dflt)

\* if (!parsed.subject) parsed.subject = "General": not in part_001
SubjectStep(v, parsed) ==
    IF v = "part_001" THEN parsed ELSE DefaultStep(parsed, K_subject, DEFAULT_SUBJECT)

\* the field sanitization of /api/analyze: the record sent, or a TypeError
AnalyzeSanitize(v, parsed) ==
    IF MermaidThrows(parsed) \/ NotesThrows(v, parsed)
    THEN [thrown |-> TRUE, value |-> Undefined]
    ELSE [thrown |-> FALSE,
          value |-> SubjectStep(v, DefaultStep(NotesStep(v, MermaidStep(v, parsed)),
                                               K_title, DEFAULT_TITLE))]

DEFAULT_DOC_TITLE == JStr(<<"A", "I", " ", "A", "g", "e", "n", "t", " ",
                            "D", "o", "c", "u", "m", "e", "n", "t", "a", "t", "i", "o", "n">>)

DEFAULT_SUBTITLE ==
    JStr(<<"S", "y", "s", "t", "e", "m", " ", "o", "v", "e", "r", "v", "i", "e", "w", " ",
           "a", "n", "d", " ", "b", "e", "h", "a", "v", "i", "o", "u", "r", " ",
           "g", "u", "i", "d", "e">>)

\* the defaults of /api/generate-doc, in the order of the code
DocDefaults(parsed) ==
    DefaultStep(DefaultStep(DefaultStep(DefaultStep(DefaultStep(parsed,
        K_title, DEFAULT_DOC_TITLE),
        K_subtitle, DEFAULT_SUBTITLE),
        K_sections, JArr(<<>>)),
        K_keyHighlights, JArr(<<>>)),
        K_tags, JArr(<<>>))

\* the TypeErrors of the sanitization of /api/generate-doc: parsed.title of null,
\* callFlowMermaid.replace of a value that is no string, and parsed.sections.length
\* in the log line, where parsed is a primitive and sections stays undefined
DocThrows(parsed) ==
    \/ parsed = JNull
    \/ /\ Truthy(Get(parsed, K_callFlowMermaid))
       /\ TypeOf(Get(parsed, K_callFlowMermaid)) # "str"
    \/ TypeOf(parsed) \in {"num", "str", "bool"}

CallFlowStep(parsed) ==
    IF Truthy(Get(parsed, K_callFlowMermaid))
    THEN Set(parsed, K_callFlowMermaid,
             JStr(NormalizeLineEndings(Get(parsed, K_callFlowMermaid)[2])))
    ELSE parsed

DocSanitize(parsed) ==
    IF DocThrows(parsed)
    THEN [thrown |-> TRUE, value |-> Undefined]
    ELSE [thrown |-> FALSE, value |-> CallFlowStep(DocDefaults(parsed))]

Sanitize(v, ep, parsed) ==
    IF ep = "generate-doc" THEN DocSanitize(parsed) ELSE AnalyzeSanitize(v, parsed)

\* the try block ends with exception err, after n calls of JSON.parse
Thrown(err, n, sanitized) ==
    [thrown |-> TRUE, err |-> err, value |-> Undefined, attempts |-> n,
     sanitized |-> sanitized]

\* the try block ends with res.json(value)
Returned(value, n) ==
    [thrown |-> FALSE, err |-> Exception("", 0, ""), value |-> value, attempts |-> n,
     sanitized |-> TRUE]

\* the end of the try block, from the result z of the field sanitization
TrySanitized(n, z) ==
    IF z.thrown
    THEN Thrown(Exception("TypeError", 0, MsgTypeError), n, TRUE)
    ELSE Returned(z.value, n)

\* the try block from the result p of the parse block on
TryParsed(v, ep, p) ==
    IF ~p.ok
    THEN Thrown(Exception("Error", 0, MsgParse(v, ep)), p.attempts, FALSE)
    ELSE TrySanitized(p.attempts, Sanitize(v, ep, p.value))

\* TryText without the test of an empty rawText
MutTryTextNoEmptyCheck(v, ep, rawText) == TryParsed(v, ep, ParseCompletion(rawText))

\* the try block from rawText on: if (!rawText) throw new Error("Empty response...")
TryText(v, ep, rawText) ==
    IF rawText = <<>>
    THEN Thrown(Exception("Error", 0, MsgEmpty(v)), 0, FALSE)
    ELSE TryParsed(v, ep, ParseCompletion(rawText))

\* what the try block does with a reply r: the exception it throws, if any, the
\* record it sends otherwise, the number of JSON.parse calls and whether the
\* sanitization was entered
TryBlock(v, ep, r) ==
    IF r.kind = "error"
    THEN Thrown(Exception("APIError", r.status, r.message), 0, FALSE)
    ELSE IF r.kind = "nocontent"
    THEN Thrown(Exception("Error", 0, MsgEmpty(v)), 0, FALSE)
    ELSE TryText(v, ep, Trim(r.text))

\* the response after the try block: res.json(parsed), or the catch block's
Respond(v, ep, t) ==
    IF t.thrown THEN Catch(v, ep, t.err) ELSE ResultResponse(t.value)

(***************************************************************************)
(* Request bodies and the synchronous part of the handlers                 *)
(***************************************************************************)
\* the limit of imageList.length
MAX_IMAGES == 10

\* how far past MAX_IMAGES the image lists of the model go
MaxExtra == 1

\* the longest run of entries that are not well-formed in an image list
MaxOdd == 2

\* an entry of images: { imageBase64: "..." }; an object without imageBase64; an
\* object whose imageBase64 is ""; a string or a number; null
EntryKinds == {"valid", "nopayload", "emptypayload", "primitive", "null"}

\* a field of the body that is a string: missing, "" or a non-empty string
FieldKinds == {"absent", "empty", "given"}

AbsentImages == [kind |-> "absent", entries |-> <<>>]

ArrayImages(es) == [kind |-> "array", entries |-> es]

Repeat(x, n) == [k \in 1..n |-> x]

RECURSIVE SeqsUpTo(_, _)
SeqsUpTo(S, n) ==
    IF n = 0 THEN {<<>>}
    ELSE SeqsUpTo(S, n - 1) \cup {Append(q, x) : q \in {t \in SeqsUpTo(S, n - 1) : Len(t) = n - 1}, x \in S}

\* the image lists: well-formed entries around a run of other entries
ImageLists ==
    {Repeat("valid", a) \o odd \o Repeat("valid", b) :
        a \in {0, 1, MAX_IMAGES - 1, MAX_IMAGES, MAX_IMAGES + MaxExtra},
        odd \in SeqsUpTo(EntryKinds \ {"valid"}, MaxOdd),
        b \in {0, 1}}

Body(missing, imageBase64, images, callPrompt, evalPrompt) ==
    [missing |-> missing, imageBase64 |-> imageBase64, images |-> images,
     callPrompt |-> callPrompt, evalPrompt |-> evalPrompt]

\* req.body of a request without a JSON body under express 4: {}
EmptyBody == Body(FALSE, "absent", AbsentImages, "absent", "absent")

\* a request without a JSON body; under express 5 req.body is undefined
MissingBody == Body(TRUE, "absent", AbsentImages, "absent", "absent")

\* the image lists sent to part_001, which never reads images
FewImageLists ==
    {<<>>, <<"valid">>, <<"nopayload">>, <<"null">>, Repeat("valid", MAX_IMAGES + MaxExtra)}

\* the bodies sent to /api/analyze of variant v
AnalyzeBodies(v) ==
    {MissingBody}
    \* images absent, truthy and no array ("nonarray"), or an array
    \cup {Body(FALSE, i, im, "absent", "absent") :
            i \in FieldKinds,
            im \in {AbsentImages, [kind |-> "nonarray", entries |-> <<>>]}
                   \cup {ArrayImages(es) :
                            es \in IF v \in MultiImageVariants THEN ImageLists ELSE FewImageLists}}

GenerateDocBodies ==
    {MissingBody}
    \cup {Body(FALSE, "absent", AbsentImages, c, e) : c \in FieldKinds, e \in FieldKinds}

\* what the synchronous part of a handler ends with: a response, an exception
\* outside the try block, or the model call with what it sends
Responds(response) == [outcome |-> "respond", response |-> response, sent |-> <<>>]

Throws == [outcome |-> "throw", response |-> DefaultErrorPage, sent |-> <<>>]

CallsModel(content) == [outcome |-> "call", response |-> DefaultErrorPage, sent |-> content]

MsgBadEntry(v) ==
    IF v = "part_000"
    THEN "Each image entry must include imageBase64."
    ELSE "Each image entry must include an imageBase64 field."

MsgMissingInput(v) ==
    CASE v = "inkparse-server" -> "Missing imageBase64 or images array in request body."
      [] v = "part_000" -> "Missing imageBase64 or images array."
      [] v = "part_001" -> "Missing imageBase64 in request body"

MsgTooMany == "Maximum 10 images per request."

MsgNoPrompt == "Provide at least one of: callPrompt, evalPrompt."

\* imageList.find(img => !img.imageBase64): the entries are visited in order up to
\* the first that is not well-formed; reading imageBase64 of null throws
FirstOdd(es) ==
    LET I == {k \in 1..Len(es) : es[k] # "valid"}
    IN  IF I = {} THEN "none" ELSE es[Min(I)]

\* buildVisionContent(imageList): one image block per entry
VisionContent(n) == <<"images", n>>

\* AnalyzeMulti without the test of imageList.length
MutAnalyzeMultiNoLimit(v, b) ==
    IF b.images.kind = "array" /\ Len(b.images.entries) > 0
    THEN IF FirstOdd(b.images.entries) = "null" THEN Throws
         ELSE IF FirstOdd(b.images.entries) # "none"
         THEN Responds(ErrorResponse(400, MsgBadEntry(v)))
         ELSE CallsModel(VisionContent(Len(b.images.entries)))
    ELSE IF b.imageBase64 = "given" THEN CallsModel(VisionContent(1))
    ELSE Responds(ErrorResponse(400, MsgMissingInput(v)))

\* AnalyzeMulti without the single-image form
MutAnalyzeMultiNoSingle(v, b) ==
    IF b.images.kind = "array" /\ Len(b.images.entries) > 0
    THEN IF FirstOdd(b.images.entries) = "null" THEN Throws
         ELSE IF FirstOdd(b.images.entries) # "none"
         THEN Responds(ErrorResponse(400, MsgBadEntry(v)))
         ELSE IF Len(b.images.entries) > MAX_IMAGES
         THEN Responds(ErrorResponse(400, MsgTooMany))
         ELSE CallsModel(VisionContent(Len(b.images.entries)))
    ELSE Responds(ErrorResponse(400, MsgMissingInput(v)))

\* /api/analyze of inkparse-server.js and part_000, up to the model call
AnalyzeMulti(v, b) ==
    IF b.images.kind = "array" /\ Len(b.images.entries) > 0
    THEN IF FirstOdd(b.images.entries) = "null" THEN Throws
         ELSE IF FirstOdd(b.images.entries) # "none"
         THEN Responds(ErrorResponse(400, MsgBadEntry(v)))
         ELSE IF Len(b.images.entries) > MAX_IMAGES
         THEN Responds(ErrorResponse(400, MsgTooMany))
         ELSE CallsModel(VisionContent(Len(b.images.entries)))
    ELSE IF b.imageBase64 = "given" THEN CallsModel(VisionContent(1))
    ELSE Responds(ErrorResponse(400, MsgMissingInput(v)))

\* /api/analyze of part_001, up to the model call
AnalyzeSingle(v, b) ==
    IF b.imageBase64 # "given"
    THEN Responds(ErrorResponse(400, MsgMissingInput(v)))
    ELSE CallsModel(VisionContent(1))

\* UserMessage that takes the call prompt branch whenever a call prompt is given
MutUserMessageCallFirst(b) == <<"prompts", b.callPrompt = "given", FALSE>>

\* the user message of /api/generate-doc: the prompts it holds
UserMessage(b) == <<"prompts", b.callPrompt = "given", b.evalPrompt = "given">>

\* /api/generate-doc, up to the model call
GenerateDoc(b) ==
    IF b.callPrompt # "given" /\ b.evalPrompt # "given"
    THEN Responds(ErrorResponse(400, MsgNoPrompt))
    ELSE CallsModel(UserMessage(b))

\* the synchronous part of the handler of endpoint ep; destructuring req.body
\* throws where it is undefined
HandlerEntry(v, ep, b) ==
    IF b.missing THEN Throws
    ELSE IF ep = "generate-doc" THEN GenerateDoc(b)
    ELSE IF v \in MultiImageVariants THEN AnalyzeMulti(v, b)
    ELSE AnalyzeSingle(v, b)

(***************************************************************************)
(* The replies of the model                                                *)
(***************************************************************************)
\* an object of the members whose value is not Undefined
Obj(ms) == JObj(SelectSeq(ms, LAMBDA m : m[2] # Undefined))

PLAIN_NOTES == JStr(<<"#", " ", "n">>)

\* notes with an escaped asterisk and a stray backslash
BACKSLASH_NOTES == JStr(<<"a", BSL, "*", "b", BSL, "c">>)

PLAIN_MERMAID == JStr(<<"A", "-", "-", ">", "B", "[", "x", "]">>)

\* a flowchart whose labels hold forbidden characters
LABEL_MERMAID == JStr(<<"A", "[", "x", ":", " ", QUOTE, "y", QUOTE, "]", "-", "-", ">", "B", "{", "p", "=", "q", "}">>)

\* a flowchart with a CR LF pair and a lone CR
CR_MERMAID == JStr(<<"A", CR, LF, "B", CR, "C">>)

\* the objects the model is asked for by /api/analyze, with members missing or of
\* another type
AnalysisRecords ==
    {Obj(<<<<K_title, t>>, <<K_subject, sj>>, <<K_notes, n>>, <<K_mermaidCode, m>>>>) :
        t \in {Undefined, JStr(<<>>), JStr(<<"T">>)},
        sj \in {Undefined, JStr(<<"S">>)},
        n \in {Undefined, PLAIN_NOTES, BACKSLASH_NOTES, JNum(<<"7">>)},
        m \in {Undefined, PLAIN_MERMAID, LABEL_MERMAID, CR_MERMAID, JNum(<<"1">>)}}

\* what the model may put in sections, keyHighlights or tags
ListOptions ==
    {Undefined, JNull, JStr(<<>>), JStr(<<"s">>), JNum(<<"5">>), JObj(<<>>),
     JArr(<<>>), JArr(<<JObj(<<<<<<"i", "d">>, JStr(<<"o">>)>>>>)>>)}

\* the objects the model is asked for by /api/generate-doc: one of the three lists
\* takes every option, beside the two others absent or given
DocRecords ==
    {Obj(<<<<K_title, JStr(<<"T">>)>>, <<K_sections, x[1]>>, <<K_keyHighlights, x[2]>>,
           <<K_tags, x[3]>>, <<K_callFlowMermaid, c>>>>) :
        x \in {<<o, u, u>> : o \in ListOptions, u \in {Undefined, JArr(<<JStr(<<"k">>)>>)}}
              \cup {<<u, o, u>> : o \in ListOptions, u \in {Undefined, JArr(<<JStr(<<"k">>)>>)}}
              \cup {<<u, u, o>> : o \in ListOptions, u \in {Undefined, JArr(<<JStr(<<"k">>)>>)}},
        c \in {Undefined, CR_MERMAID}}
    \cup {Obj(<<<<K_callFlowMermaid, JNum(<<"5">>)>>>>)}

\* how the model wraps the object it returns
Wrappers == {"bare", "padded", "fenced", "FENCED", "fence", "prose", "braces before", "braces after"}

Wrap(w, s) ==
    CASE w = "bare" -> s
      [] w = "padded" -> <<" ", LF>> \o s \o <<LF, " ">>
      [] w = "fenced" -> FENCE_JSON \o <<LF>> \o s \o <<LF>> \o FENCE
      [] w = "FENCED" -> FENCE \o <<"J", "S", "O", "N", " ">> \o s \o FENCE \o <<LF>>
      [] w = "fence" -> FENCE \o <<LF>> \o s \o <<LF>> \o FENCE
      [] w = "prose" -> <<"H", "e", "r", "e", ":", " ">> \o s \o <<" ", "D", "o", "n", "e", ".">>
      [] w = "braces before" -> <<"S", "e", "t", " ", "{", "x", "}", " ">> \o s
      [] w = "braces after" -> s \o <<" ", "{", "y", "}">>

\* completions that are no JSON object: empty, white space, other JSON values,
\* text that is no JSON
OtherTexts ==
    {<<>>, <<" ">>, <<LF, " ", TAB>>,
     LIT_null, LIT_true, LIT_false, <<"5">>, <<"0">>,
     <<QUOTE, "a", "b", "c", QUOTE>>, <<"[", "1", "]">>, <<"[", "]">>, <<"{", "}">>,
     <<"o", "o", "p", "s">>, <<"{">>, <<"{", QUOTE, "t", "i", "t", "l", "e", QUOTE, ":", QUOTE, "T", QUOTE, ",", "}">>,
     FENCE_JSON \o <<LF>> \o FENCE}

\* the records that are also sent wrapped
WrappedRecords ==
    {Obj(<<<<K_title, t>>, <<K_notes, n>>, <<K_mermaidCode, m>>>>) :
        t \in {Undefined, JStr(<<"T">>)},
        n \in {Undefined, PLAIN_NOTES, BACKSLASH_NOTES},
        m \in {Undefined, PLAIN_MERMAID, LABEL_MERMAID}}

CompletionTexts ==
    {Stringify(rec) : rec \in AnalysisRecords \cup DocRecords}
    \cup {Wrap(w, Stringify(rec)) : w \in Wrappers, rec \in WrappedRecords}
    \cup OtherTexts

\* the outcomes of the model call; err.status of a failed call is 0 when there is
\* none (a connection error)
Replies ==
    {ErrorReply(st, m) : st \in {0, 400, 401, 413, 429, 500, 503},
                         m \in {"", "upstream error"}}
    \cup {NoContentReply}
    \cup {TextReply(t) : t \in CompletionTexts}

(***************************************************************************)
(* The server: requests r, each from "idle" through the handler            *)
(***************************************************************************)
\* the requests the server holds at a time: the handlers keep what they work on
\* in locals of the invocation, one slot for each request
Reqs == {1, 2}

Endpoints(v) == IF v = "part_000" THEN {"analyze", "generate-doc"} ELSE {"analyze"}

Bodies(v, ep) == IF ep = "generate-doc" THEN GenerateDocBodies ELSE AnalyzeBodies(v)

NoReply == [kind |-> "none", status |-> 0, message |-> "", text |-> <<>>]

NotRun == [attempts |-> 0, sanitized |-> FALSE]

Init ==
    /\ variant \in Variants
    /\ endpoint = [r \in Reqs |-> "none"]
    /\ body = [r \in Reqs |-> EmptyBody]
    /\ pc = [r \in Reqs |-> "idle"]
    /\ calls = [r \in Reqs |-> 0]
    /\ sent = [r \in Reqs |-> <<>>]
    /\ reply = [r \in Reqs |-> NoReply]
    /\ resp = [r \in Reqs |-> <<>>]
    /\ ran = [r \in Reqs |-> NotRun]
    /\ health = <<>>

\* a request arrives and its handler runs up to the first of: a response, an
\* exception outside the try block, the await of the model call.  express 4
\* gives a request without JSON body the body {} and never answers a rejected
\* handler; express 5 leaves req.body undefined and answers a rejected handler
\* with its default error page
Handle(r, ep, b, express) ==
    LET seen == IF b.missing /\ express = "4" THEN EmptyBody ELSE b
        h == HandlerEntry(variant, ep, seen)
    IN  /\ pc[r] = "idle"
        /\ endpoint' = [endpoint EXCEPT ![r] = ep]
        /\ body' = [body EXCEPT ![r] = b]
        /\ pc' = [pc EXCEPT ![r] =
                    CASE h.outcome = "call" -> "awaiting"
                      [] h.outcome = "respond" -> "done"
                      [] h.outcome = "throw" /\ express = "5" -> "done"
                      [] OTHER -> "rejected"]
        /\ calls' = [calls EXCEPT ![r] = IF h.outcome = "call" THEN @ + 1 ELSE @]
        /\ sent' = [sent EXCEPT ![r] = h.sent]
        /\ resp' = [resp EXCEPT ![r] =
                    CASE h.outcome = "respond" -> Append(@, h.response)
                      [] h.outcome = "throw" /\ express = "5" -> Append(@, DefaultErrorPage)
                      [] OTHER -> @]
        /\ UNCHANGED <<variant, reply, ran, health>>

\* the response and the steps run, from the result t of the try block
OutcomeOf(v, ep, t) ==
    [response |-> Respond(v, ep, t),
     ran |-> [attempts |-> t.attempts, sanitized |-> t.sanitized]]

\* Outcome, tabulated once for the replies of the model
OutcomeTable ==
    [q \in {<<v, ep, rep>> : v \in Variants, ep \in {"analyze", "generate-doc"}, rep \in Replies}
        |-> OutcomeOf(q[1], q[2], TryBlock(q[1], q[2], q[3]))] @@ <<>>

\* SettleWith that issues the model call again when the response is an error
MutSettleRetry(r, rep, o) ==
    /\ pc[r] = "awaiting"
    /\ reply' = [reply EXCEPT ![r] = rep]
    /\ ran' = [ran EXCEPT ![r] = o.ran]
    /\ resp' = [resp EXCEPT ![r] = Append(@, o.response)]
    /\ pc' = [pc EXCEPT ![r] = "done"]
    /\ calls' = [calls EXCEPT ![r] = IF o.response.kind = "error" THEN @ + 1 ELSE @]
    /\ UNCHANGED <<variant, endpoint, body, sent, health>>

\* SettleWith of a handler that keeps the reply in a variable of the module, which
\* every handler suspended at its model call then reads
MutSettleShared(r, rep, o) ==
    /\ pc[r] = "awaiting"
    /\ reply' = [q \in Reqs |-> IF pc[q] = "awaiting" THEN rep ELSE reply[q]]
    /\ ran' = [ran EXCEPT ![r] = o.ran]
    /\ resp' = [resp EXCEPT ![r] = Append(@, o.response)]
    /\ pc' = [pc EXCEPT ![r] = "done"]
    /\ UNCHANGED <<variant, endpoint, body, calls, sent, health>>

\* the rest of the handler of request r runs on reply rep, with outcome o
SettleWith(r, rep, o) ==
    /\ pc[r] = "awaiting"
    /\ reply' = [reply EXCEPT ![r] = rep]
    /\ ran' = [ran EXCEPT ![r] = o.ran]
    /\ resp' = [resp EXCEPT ![r] = Append(@, o.response)]
    /\ pc' = [pc EXCEPT ![r] = "done"]
    /\ UNCHANGED <<variant, endpoint, body, calls, sent, health>>

\* the model call settles with reply rep and the rest of the handler runs
Settle(r, rep) == SettleWith(r, rep, OutcomeTable[<<variant, endpoint[r], rep>>])

HandleRequest(r) ==
    /\ pc[r] = "idle"
    /\ \E ep \in Endpoints(variant), express \in {"4", "5"} :
          \E b \in Bodies(variant, ep) : Handle(r, ep, b, express)

ErrorReplies == {x \in Replies : x.kind = "error"}

CompletionReplies == {x \in Replies : x.kind # "error"}

ModelThrows(r) ==
    /\ pc[r] = "awaiting"
    /\ \E rep \in ErrorReplies : Settle(r, rep)

ModelReturns(r) ==
    /\ pc[r] = "awaiting"
    /\ \E rep \in CompletionReplies : Settle(r, rep)

\* the exchange is over and the slot takes the next request
Reset(r) ==
    /\ pc[r] \in {"done", "rejected"}
    /\ endpoint' = [endpoint EXCEPT ![r] = "none"]
    /\ body' = [body EXCEPT ![r] = EmptyBody]
    /\ pc' = [pc EXCEPT ![r] = "idle"]
    /\ calls' = [calls EXCEPT ![r] = 0]
    /\ sent' = [sent EXCEPT ![r] = <<>>]
    /\ reply' = [reply EXCEPT ![r] = NoReply]
    /\ resp' = [resp EXCEPT ![r] = <<>>]
    /\ ran' = [ran EXCEPT ![r] = NotRun]
    /\ UNCHANGED <<variant, health>>

\* app.get("/health"): res.json({ status: "ok", ... }); uptime is a number, and
\* the server of part_000 puts no model in the body
HealthResponse(v) ==
    [status |-> 200,
     body |-> CASE v = "inkparse-server" ->
                       [status |-> "ok", uptime |-> "number", model |-> "gpt-4o"]
                [] v = "part_000" -> [status |-> "ok", uptime |-> "number"]
                [] v = "part_001" -> [status |-> "ok", model |-> "gpt-4o"]]

\* GET /health is answered at once, whatever the requests to /api are at
Health ==
    /\ health' = <<HealthResponse(variant)>>
    /\ UNCHANGED <<variant, endpoint, body, pc, calls, sent, reply, resp, ran>>

\* the requests served one after the other, in the first slot
Next ==
    \/ \E r \in {1} :
          \/ HandleRequest(r)
          \/ ModelThrows(r)
          \/ ModelReturns(r)
          \/ Reset(r)
    \/ Health

Spec == Init /\ [][Next]_vars

(***************************************************************************)
(* The sanitizer on generated completions: a request that passed           *)
(* validation, and the model returning an object with one generated field  *)
(***************************************************************************)
\* the longest generated flowchart with labels
MaxLabelLen == 4

\* flowchart text with labels: brackets, braces, a forbidden character, a letter
LabelTexts == SeqsUpTo({"[", "]", "{", "}", ":", "a"}, MaxLabelLen)

\* the longest generated flowchart with line endings
MaxLineLen == 4

\* flowchart text with line endings
LineTexts == SeqsUpTo({CR, LF, "a"}, MaxLineLen)

\* A-->B[Step: "one"]-->C{x='y'}
STEP_MERMAID ==
    <<"A", "-", "-", ">", "B", "[", "S", "t", "e", "p", ":", " ", QUOTE, "o", "n", "e",
      QUOTE, "]", "-", "-", ">", "C", "{", "x", "=", "'", "y", "'", "}">>

\* two labels on one line, then an edge label: A[a:b]-->B[c=d]-->|e:f|C
EDGE_MERMAID ==
    <<"A", "[", "a", ":", "b", "]", "-", "-", ">", "B", "[", "c", "=", "d", "]",
      "-", "-", ">", "|", "e", ":", "f", "|", "C">>

Flowcharts == LabelTexts \cup LineTexts \cup {STEP_MERMAID, EDGE_MERMAID}

\* the field that holds the flowchart in the object of endpoint ep
FlowchartKey(ep) == IF ep = "generate-doc" THEN K_callFlowMermaid ELSE K_mermaidCode

\* the completion whose object holds value x under key k and nothing else
FieldReply(k, x) == TextReply(Stringify(JObj(<<<<k, x>>>>)))

\* a body that passes the validation of endpoint ep
ValidBody(ep) ==
    IF ep = "generate-doc"
    THEN Body(FALSE, "absent", AbsentImages, "given", "absent")
    ELSE Body(FALSE, "given", AbsentImages, "absent", "absent")

\* a request that passes validation arrives
AcceptRequest(r) ==
    /\ pc[r] = "idle"
    /\ \E ep \in Endpoints(variant) : Handle(r, ep, ValidBody(ep), "4")

\* the model call settles with reply rep and the rest of the handler runs
SettleFresh(r, rep) ==
    SettleWith(r, rep, OutcomeOf(variant, endpoint[r], TryBlock(variant, endpoint[r], rep)))

\* the longest generated string body with backslashes
MaxEscapeLen == 5

\* the completion { "n": "..." } whose string body is text b as it stands, not
\* escaped: b holds backslashes before the letter n, before q, before another
\* backslash or before the closing quote
EscapedReply(b) ==
    TextReply(<<"{", QUOTE, "n", QUOTE, ":", QUOTE>> \o b \o <<QUOTE, "}">>)

\* the generated completions of endpoint ep
GeneratedReplies(ep) ==
    {FieldReply(FlowchartKey(ep), JStr(m)) : m \in Flowcharts}
    \cup {EscapedReply(b) : b \in SeqsUpTo({BSL, "q", "n"}, MaxEscapeLen)}

\* the model returns a generated completion
ReturnsGenerated(r) ==
    /\ pc[r] = "awaiting"
    /\ \E rep \in GeneratedReplies(endpoint[r]) : SettleFresh(r, rep)

SanitizerNext ==
    \E r \in {1} :
        \/ AcceptRequest(r)
        \/ ReturnsGenerated(r)
        \/ Reset(r)

SanitizerSpec == Init /\ [][SanitizerNext]_vars

(***************************************************************************)
(* Requests in flight together, and the keep-alive timer                   *)
(***************************************************************************)
\* a request that passes the validation arrives, whatever the other requests are
\* at, and its handler runs up to the await of the model call
Suspend(r) ==
    /\ pc[r] = "idle"
    /\ \E ep \in Endpoints(variant) :
          \E b \in {ValidBody(ep),
                    Body(FALSE, "absent", ArrayImages(<<"valid", "valid">>), "absent", "absent"),
                    Body(FALSE, "absent", AbsentImages, "given", "given")} :
              /\ HandlerEntry(variant, ep, b).outcome = "call"
              /\ Handle(r, ep, b, "4")

\* the model replies to requests in flight together: the call fails, returns
\* no content, text that is no object, or an object
ConcurrentReplies ==
    {ErrorReply(st, "") : st \in {0, 400, 401, 413, 429, 500, 503}}
    \cup {NoContentReply}
    \cup {TextReply(t) : t \in {<<>>, <<"5">>, <<"{", "}">>, <<"o", "o", "p", "s">>}}
    \cup {TextReply(Stringify(rec)) : rec \in WrappedRecords}

\* the model call of a suspended request settles, in any order with the others,
\* and the rest of its handler runs
Resume(r) ==
    /\ pc[r] = "awaiting"
    /\ \E rep \in ConcurrentReplies : Settle(r, rep)

\* the callback of setInterval: fetch of /health of the server itself, answered by
\* the handler of /health; the callback logs and keeps nothing
KeepAlive == Health

ConcurrentNext ==
    \/ \E r \in Reqs :
          \/ Suspend(r)
          \/ Resume(r)
          \/ Reset(r)
    \/ KeepAlive

ConcurrentSpec == Init /\ [][ConcurrentNext]_vars

(***************************************************************************)
(* Properties                                                              *)
(***************************************************************************)
\* request r got exactly the response x from its handler
Answered(r, x) == pc[r] = "done" /\ resp[r] = <<x>>

\* request r went to POST /api/analyze with a JSON body
Analyzed(r) == pc[r] # "idle" /\ endpoint[r] = "analyze" /\ ~body[r].missing

\* the body of request r holds an images array of more than MAX_IMAGES entries
TooMany(r) ==
    /\ Analyzed(r)
    /\ body[r].images.kind = "array"
    /\ Len(body[r].images.entries) > MAX_IMAGES

\* the handler of request r threw outside its try block: no model call, and no
\* response but the error page of express 5
Rejected(r) ==
    /\ calls[r] = 0
    /\ \/ pc[r] = "rejected" /\ resp[r] = <<>>
       \/ Answered(r, DefaultErrorPage)

C2_BadEntryRefused ==
    \A r \in Reqs :
        (/\ Analyzed(r)
         /\ variant \in MultiImageVariants
         /\ body[r].images.kind = "array"
         /\ \E k \in 1..Len(body[r].images.entries) : body[r].images.entries[k] # "valid")
        => /\ pc[r] = "done"
           /\ Len(resp[r]) = 1
           /\ resp[r][1].status = 400
           /\ resp[r][1].kind = "error"
           /\ calls[r] = 0

\* the body of request r holds a non-empty images array
HasImages(r) == body[r].images.kind = "array" /\ Len(body[r].images.entries) > 0

\* the body of request r holds 1 to MAX_IMAGES images, each with its payload
ValidImages(r) ==
    /\ HasImages(r)
    /\ Len(body[r].images.entries) <= MAX_IMAGES
    /\ \A k \in 1..Len(body[r].images.entries) : body[r].images.entries[k] = "valid"

\* the handler of request r issued its model call
Proceeded(r) == pc[r] \in {"awaiting", "done"} /\ calls[r] = 1 /\ (pc[r] = "done" => reply[r] # NoReply)

PassesValidation(r) ==
    /\ ~body[r].missing
    /\ HandlerEntry(variant, endpoint[r], body[r]).outcome = "call"

\* C4: a request that passes validation causes exactly one model call and a
\* request that fails validation none; the call is not issued again when it fails
\* or returns text that cannot be used.
C4_OneModelCall ==
    \A r \in Reqs :
        /\ pc[r] = "idle" => calls[r] = 0
        /\ pc[r] # "idle" => calls[r] = IF PassesValidation(r) THEN 1 ELSE 0
        /\ pc[r] = "awaiting" => calls[r] = 1 /\ resp[r] = <<>>
        /\ (pc[r] = "done" /\ reply[r] # NoReply) => calls[r] = 1
        /\ (pc[r] \in {"done", "rejected"} /\ reply[r] = NoReply) => calls[r] = 0

\* C4 witness: a completion that fails both parses was answered after one call
C4_Witness ==
    \E r \in Reqs :
        /\ pc[r] = "done"
        /\ reply[r].kind = "text"
        /\ ran[r].attempts = 2
        /\ resp[r][1].status = 500
        /\ calls[r] = 1

\* the model call of request r has settled with a reply and the handler answered
Settled(r) == pc[r] = "done" /\ reply[r] # NoReply /\ Len(resp[r]) = 1

\* the model call of request r threw an error of status st
UpstreamFailed(r, st) == Settled(r) /\ reply[r].kind = "error" /\ reply[r].status = st

\* the completion of request r is absent, empty, or empty once trimmed
EmptyCompletion(r) ==
    /\ Settled(r)
    /\ \/ reply[r].kind = "nocontent"
       \/ reply[r].kind = "text" /\ Trim(reply[r].text) = <<>>

\* the completion of request r has text left once trimmed
TextCompletion(r) ==
    /\ Settled(r)
    /\ reply[r].kind = "text"
    /\ Trim(reply[r].text) # <<>>

\* C5: in every endpoint variant an upstream failure of status 401 is answered 401,
\* 429 is answered 429, 413 is answered 413, an upstream service failure (status
\* 500) is answered 502, an empty or unparsable completion is answered 500, and
\* every error response is an object with the one string field error.
C5_Taxonomy ==
    \A r \in Reqs :
        /\ \A st \in {401, 429, 413} :
              UpstreamFailed(r, st) => resp[r][1].status = st /\ resp[r][1].kind = "error"
        /\ UpstreamFailed(r, 500) => resp[r][1].status = 502 /\ resp[r][1].kind = "error"
        /\ EmptyCompletion(r) => resp[r][1].status = 500 /\ resp[r][1].kind = "error"
        /\ (TextCompletion(r) /\ ~ran[r].sanitized)
              => resp[r][1].status = 500 /\ resp[r][1].kind = "error"

\* C6: when the completion is absent, empty, or empty once trimmed, the request is
\* answered 500 with the "Empty response from OpenAI" message, no JSON.parse and no
\* field sanitization runs, and nothing else is reported.
C6_EmptyCompletion ==
    \A r \in Reqs :
        EmptyCompletion(r) =>
            /\ resp[r] = <<ErrorResponse(500, MsgEmpty(variant))>>
            /\ ran[r] = NotRun
            /\ calls[r] = 1

\* C6 witness: a completion of white space only was answered with the empty
\* response failure
C6_Witness ==
    \E r \in Reqs :
        /\ EmptyCompletion(r)
        /\ reply[r].kind = "text"
        /\ reply[r].text # <<>>
        /\ resp[r][1].status = 500
        /\ resp[r][1].error = MsgEmpty(variant)

\* C7: whatever the non-empty completion text (JSON null, a number, a string, an
\* array, an object whose mermaidCode, notes or callFlowMermaid is a truthy
\* non-string included), the handler answers with the record or with the empty
\* or the unparsable response failure; no other exception is reported.
C7_OnlyNamedFailures ==
    \A r \in Reqs :
        TextCompletion(r) =>
            \/ resp[r][1].kind = "result"
            \/ /\ resp[r][1].kind = "error"
               /\ resp[r][1].error \in {MsgEmpty(variant), MsgParse(variant, endpoint[r])}

\* the text around the object under wrapper w
Around(w) == Wrap(w, <<>>)

\* text s holds no brace
BraceFree(s) == \A n \in 1..Len(s) : s[n] \notin {"{", "}"}

\* the wrappers of the round trip: FENCE json fences, and prose around the object
RoundTripWrappers == {"fenced", "prose", "braces before", "braces after"}

\* the round trips: a record, a wrapper, and the completion text they make
RoundTrips ==
    {<<rec, w, Wrap(w, Stringify(rec))>> : rec \in WrappedRecords, w \in RoundTripWrappers}

\* string value x holds none of the characters of cs
Without(x, cs) == x = Undefined \/ (TypeOf(x) = "str" /\ \A n \in 1..Len(x[2]) : x[2][n] \notin cs)

\* a record no field of which the field sanitization rewrites: its mermaidCode has
\* no carriage return and none of the characters removed from labels, its notes
\* no backslash
Untouched(rec) ==
    /\ Without(Get(rec, K_mermaidCode), {CR} \cup LabelForbidden)
    /\ Without(Get(rec, K_notes), {BSL})

\* record rec with the defaults of variant v in place of its absent title and
\* subject
PlusDefaults(v, rec) ==
    LET t == IF Get(rec, K_title) = Undefined THEN Set(rec, K_title, DEFAULT_TITLE) ELSE rec
    IN  IF v # "part_001" /\ Get(t, K_subject) = Undefined
        THEN Set(t, K_subject, DEFAULT_SUBJECT)
        ELSE t

\* request r to /api/analyze was answered on the completion text of round trip c
RoundTripped(r, c) ==
    /\ Settled(r)
    /\ endpoint[r] = "analyze"
    /\ reply[r].kind = "text"
    /\ reply[r].text = c[3]

C9_FourFields ==
    \A r \in Reqs :
        (Settled(r) /\ endpoint[r] = "analyze" /\ resp[r][1].kind = "result"
                    /\ TypeOf(resp[r][1].value) = "obj")
            => \A k \in {K_title, K_subject, K_notes, K_mermaidCode} :
                   Get(resp[r][1].value, k) # Undefined

\* C10: every 200 response of POST /api/generate-doc holds sections, keyHighlights
\* and tags that are arrays, whatever the model's object held for them.
C10_ListsAreArrays ==
    \A r \in Reqs :
        (Settled(r) /\ endpoint[r] = "generate-doc" /\ resp[r][1].kind = "result"
                    /\ TypeOf(resp[r][1].value) = "obj")
            => \A k \in {K_sections, K_keyHighlights, K_tags} :
                   TypeOf(Get(resp[r][1].value, k)) = "arr"

\* the flowchart of the 200 response of request r
FlowchartOut(r) == Get(resp[r][1].value, FlowchartKey(endpoint[r]))

\* request r was answered 200 with an object whose flowchart is a string
FlowchartSent(r) ==
    /\ Settled(r)
    /\ resp[r][1].kind = "result"
    /\ TypeOf(FlowchartOut(r)) = "str"

\* position p of s lies in a label body: after an opening bracket and before the
\* next closing bracket
InBody(s, p, open, close) ==
    /\ \E i \in 1..(p - 1) : s[i] = open /\ \A k \in (i + 1)..p : s[k] # close
    /\ \E j \in (p + 1)..Len(s) : s[j] = close

InLabel(s, p) == InBody(s, p, "[", "]") \/ InBody(s, p, "{", "}")

\* C11: after label sanitization (inkparse-server.js, part_001) no label body of
\* mermaidCode, in square brackets or in braces, holds any of the characters
\* " ' : =, also when a label holds several of them.
C11_LabelsClean ==
    \A r \in Reqs :
        (FlowchartSent(r) /\ endpoint[r] = "analyze" /\ variant # "part_000")
            => \A p \in 1..Len(FlowchartOut(r)[2]) :
                   FlowchartOut(r)[2][p] \in LabelForbidden => ~InLabel(FlowchartOut(r)[2], p)

\* C12: the field post-processing (line endings, labels, notes backslashes,
\* defaults) applied to a record the handler has sent yields the same record.
C12_Idempotent ==
    \A r \in Reqs :
        (Settled(r) /\ resp[r][1].kind = "result")
            => Sanitize(variant, endpoint[r], resp[r][1].value)
                   = [thrown |-> FALSE, value |-> resp[r][1].value]

\* text s from position i on with a backslash put before every backslash that
\* starts no escape sequence of JSON (\" \\ \/ \b \f \n \r \t, \u and four
\* hexadecimal digits), the escape sequences copied as they stand
RECURSIVE DoubleStray(_, _)
DoubleStray(s, i) ==
    IF i > Len(s) THEN <<>>
    ELSE IF s[i] # BSL THEN <<s[i]>> \o DoubleStray(s, i + 1)
    ELSE IF IsAt(s, i + 1, {QUOTE, BSL, "/", "b", "f", "n", "r", "t"})
    THEN <<s[i], s[i + 1]>> \o DoubleStray(s, i + 2)
    ELSE IF /\ IsAt(s, i + 1, {"u"})
            /\ i + 5 <= Len(s)
            /\ \A k \in 2..5 : s[i + k] \in Digits \cup {"a", "b", "c", "d", "e", "f",
                                                          "A", "B", "C", "D", "E", "F"}
    THEN <<s[i], s[i + 1]>> \o DoubleStray(s, i + 2)
    ELSE <<BSL, BSL>> \o DoubleStray(s, i + 1)

\* the text of the completion of request r that goes to JSON.parse
CleanText(r) == ExtractObject(StripFences(Trim(reply[r].text)))

\* the completion of request r fails the strict parse and is valid JSON once its
\* stray backslashes are doubled
StrayOnly(r) ==
    /\ TextCompletion(r)
    /\ ~JSONParse(CleanText(r))[1]
    /\ JSONParse(DoubleStray(CleanText(r), 1))[1]

\* C13: a completion that is well-formed JSON except for stray backslashes in its
\* strings is parsed on the retry: the repair doubles the backslashes that start
\* no escape sequence and leaves the escape sequences, an escaped backslash
\* followed by any character included, as they are.
C13_RepairParses ==
    \A r \in Reqs :
        StrayOnly(r) => ran[r].attempts = 2 /\ resp[r][1].kind = "result"

\* C14: JSON.parse runs at most twice per completion, the second time on the
\* repaired text and only when the first failed; when the second fails too the
\* request is answered 500 with the parse failure message, no field
\* post-processing runs and no record is sent.
C14_TwoAttempts ==
    \A r \in Reqs :
        /\ ran[r].attempts <= 2
        /\ TextCompletion(r) =>
              /\ ran[r].attempts >= 1
              /\ ran[r].attempts = 2 <=> ~JSONParse(CleanText(r))[1]
              /\ (ran[r].attempts = 2 /\ ~JSONParse(RepairEscapes(CleanText(r)))[1])
                    => /\ resp[r] = <<ErrorResponse(500, MsgParse(variant, endpoint[r]))>>
                       /\ ~ran[r].sanitized
                       /\ calls[r] = 1

\* C14 witness: a completion failed the strict parse and the parse of its repaired
\* text, and was answered with the parse failure
C14_Witness ==
    \E r \in Reqs :
        /\ TextCompletion(r)
        /\ ran[r] = [attempts |-> 2, sanitized |-> FALSE]
        /\ RepairEscapes(CleanText(r)) # CleanText(r)
        /\ resp[r][1].status = 500
        /\ resp[r][1].error = MsgParse(variant, endpoint[r])

\* C15: every 200 response of POST /api/analyze carries a JSON object with a
\* non-empty title, whatever completion text was parsed (text without braces
\* that parses to a number, a string, a boolean or an array included).
C15_AnalysisResult ==
    \A r \in Reqs :
        (Settled(r) /\ endpoint[r] = "analyze" /\ resp[r][1].kind = "result")
            => /\ TypeOf(resp[r][1].value) = "obj"
               /\ TypeOf(Get(resp[r][1].value, K_title)) = "str"
               /\ Get(resp[r][1].value, K_title)[2] # <<>>

\* request r went to POST /api/generate-doc with a JSON body
DocRequested(r) == pc[r] # "idle" /\ endpoint[r] = "generate-doc" /\ ~body[r].missing

C17_Health ==
    /\ ENABLED Health
    /\ \A n \in 1..Len(health) :
          /\ health[n].status = 200
          /\ health[n].body.status = "ok"
          /\ "model" \in DOMAIN health[n].body
          /\ health[n].body.model = "gpt-4o"

\* the flowchart of the object the model returned to request r
FlowchartIn(r) == Get(JSONParse(CleanText(r))[2], FlowchartKey(endpoint[r]))

\* text s from position i on, with sep in the place of the characters at the
\* positions of D
RECURSIVE Rewrite(_, _, _, _)
Rewrite(s, D, sep, i) ==
    IF i > Len(s) THEN <<>>
    ELSE (IF i \in D THEN sep ELSE <<s[i]>>) \o Rewrite(s, D, sep, i + 1)

\* the positions of s that hold one of " ' : = inside a label body
ForbiddenInLabel(s) == {p \in 1..Len(s) : s[p] \in {QUOTE, "'", ":", "="} /\ InLabel(s, p)}

\* text out is text in but for characters " ' : = inside label bodies, each
\* removed or each replaced by a space
OnlyLabelsTouched(in, out) ==
    \E sep \in {<<>>, <<" ">>} : \E D \in SUBSET ForbiddenInLabel(in) :
        out = Rewrite(in, D, sep, 1)

\* request r was answered 200 with the flowchart of the model's object put through
\* the label sanitization (inkparse-server.js, part_001) and nothing else
LabelsSanitized(r) ==
    /\ FlowchartSent(r)
    /\ endpoint[r] = "analyze"
    /\ variant # "part_000"
    /\ TypeOf(FlowchartIn(r)) = "str"
    /\ \A p \in 1..Len(FlowchartIn(r)[2]) : FlowchartIn(r)[2][p] # CR

\* C18: label sanitization changes nothing outside label bodies: the mermaidCode
\* sent is the mermaidCode received but for characters " ' : = that stand between
\* an opening bracket and the next closing bracket (square or curly), each removed
\* or replaced by a space; every other character, the brackets included, is kept
\* in its order.
C18_LabelFrame ==
    \A r \in Reqs :
        LabelsSanitized(r) => OnlyLabelsTouched(FlowchartIn(r)[2], FlowchartOut(r)[2])

\* C18 witness: two labels were rewritten, and the colon of the edge label after
\* them and the arrows were kept
C18_Witness ==
    \E r \in Reqs :
        /\ LabelsSanitized(r)
        /\ FlowchartIn(r)[2] = EDGE_MERMAID
        /\ FlowchartOut(r)[2] # EDGE_MERMAID
        /\ ForbiddenInLabel(FlowchartOut(r)[2]) = {}
        /\ \E p \in 1..Len(FlowchartOut(r)[2]) : FlowchartOut(r)[2][p] = ":"

\* text s from position i on with every CR LF pair and every other CR made one LF
RECURSIVE OneLf(_, _)
OneLf(s, i) ==
    IF i > Len(s) THEN <<>>
    ELSE IF s[i] = CR /\ i < Len(s) /\ s[i + 1] = LF THEN <<LF>> \o OneLf(s, i + 2)
    ELSE IF s[i] = CR THEN <<LF>> \o OneLf(s, i + 1)
    ELSE <<s[i]>> \o OneLf(s, i + 1)

\* request r was answered 200 with the flowchart of the model's object, a string
NormalizedSent(r) == FlowchartSent(r) /\ TypeOf(FlowchartIn(r)) = "str"

\* C19: the flowchart text of a 200 response (mermaidCode of /api/analyze,
\* callFlowMermaid of /api/generate-doc) holds no carriage return: each CR LF pair
\* of the text received is one LF, each other CR is one LF, and the step changes
\* no other character (the text sent is exactly that when the text received holds
\* none of the characters the label step rewrites).
C19_NoCarriageReturn ==
    \A r \in Reqs :
        NormalizedSent(r) =>
            /\ \A p \in 1..Len(FlowchartOut(r)[2]) : FlowchartOut(r)[2][p] # CR
            /\ (\A p \in 1..Len(FlowchartIn(r)[2]) : FlowchartIn(r)[2][p] \notin {QUOTE, "'", ":", "="})
                  => FlowchartOut(r)[2] = OneLf(FlowchartIn(r)[2], 1)

\* C19 witness: a callFlowMermaid with a CR LF pair and a lone CR came back with
\* two LF
C19_Witness ==
    \E r \in Reqs :
        /\ NormalizedSent(r)
        /\ endpoint[r] = "generate-doc"
        /\ FlowchartIn(r)[2] = <<"a", CR, LF, CR>>
        /\ FlowchartOut(r)[2] = <<"a", LF, LF>>

\* C20: in every variant of POST /api/analyze, every backslash of the notes of a
\* 200 response is followed at once by one of the Markdown characters
\* * _ BACKTICK # > - [ ] (every other backslash was removed).
C20_NotesBackslashes ==
    \A r \in Reqs :
        (Settled(r) /\ endpoint[r] = "analyze" /\ resp[r][1].kind = "result"
                    /\ TypeOf(Get(resp[r][1].value, K_notes)) = "str")
            => \A p \in 1..Len(Get(resp[r][1].value, K_notes)[2]) :
                   Get(resp[r][1].value, K_notes)[2][p] = BSL
                       => IsAt(Get(resp[r][1].value, K_notes)[2], p + 1,
                               {"*", "_", BACKTICK, "#", ">", "-", "[", "]"})

\* C21: every request that reached a POST handler gets exactly one response, a
\* JSON response of the handler (a 400 of the validation, the 200 result or an
\* error status of the catch block), whatever its body (a missing body and images
\* entries that are null included) and whatever the model call does: none yet
\* while the model call is awaited, exactly one once the handler has ended.
C21_OneResponse ==
    \A r \in Reqs :
        /\ pc[r] \in {"idle", "awaiting"} => resp[r] = <<>>
        /\ pc[r] \notin {"idle", "awaiting"} =>
              /\ Len(resp[r]) = 1
              /\ resp[r][1].kind \in {"error", "result"}
              /\ resp[r][1].status \in {200, 400, 401, 413, 429, 500, 502}

\* what the server holds of request r
Slot(r) == <<endpoint[r], body[r], pc[r], calls[r], sent[r], reply[r], resp[r], ran[r]>>

\* C22: requests in flight together do not interfere.  Under every interleaving
\* of requests suspended at their model calls and of the keep-alive timer, a step
\* of the handler of one request changes nothing of another request and nothing
\* of what /health answers; the request sent to the model is the one of the own
\* body, the response is the one of the own model reply, exactly one; and a fetch
\* of /health by the timer changes nothing of any request.
C22_NoInterference ==
    [][\A r \in Reqs :
          /\ Slot(r)' # Slot(r) =>
                /\ \A q \in Reqs \ {r} : Slot(q)' = Slot(q)
                /\ health' = health
          /\ pc[r] = "idle" /\ pc'[r] = "awaiting" =>
                /\ sent'[r] = HandlerEntry(variant, endpoint'[r], body'[r]).sent
                /\ resp'[r] = <<>>
          /\ pc[r] = "awaiting" /\ Slot(r)' # Slot(r) =>
                /\ pc'[r] = "done"
                /\ reply'[r] # NoReply
                /\ <<endpoint'[r], body'[r], calls'[r], sent'[r]>>
                      = <<endpoint[r], body[r], calls[r], sent[r]>>
                /\ resp'[r] = <<OutcomeTable[<<variant, endpoint[r], reply'[r]>>].response>>
          /\ health' # health =>
                /\ Slot(r)' = Slot(r)
                /\ health' = <<HealthResponse(variant)>>]_vars

\* request 2 has its result from its own reply while request 1, with another
\* body, is still suspended at its model call, and the timer has fetched /health
C22_Witness ==
    /\ pc[1] = "awaiting"
    /\ Settled(2)
    /\ resp[2][1].kind = "result"
    /\ body[1] # body[2]
    /\ health # <<>>

=============================================================================
